---- MODULE Spec2Model ----
(***************************************************************************)
(* Model of the multi-threaded connect scanner of NewPortScanner.py:       *)
(* main() resolves the target, scan_ports() fills a Queue with the ports   *)
(* of [start_port, end_port], starts min(num_threads, total_ports) daemon  *)
(* worker threads, waits on queue.join() and on every thread, and returns  *)
(* sorted(open_ports).  Every worker loops over get_nowait / scan_port /   *)
(* progress update / task_done.  One step of the model is one statement    *)
(* (or one critical section entry) of one thread.                          *)
(* SampleSpec is the class sample Samplefromclass-portscanner.py, whose     *)
(* worker differs, and ContactSpec is the menu loop of ContactList.py.     *)
(***************************************************************************)
EXTENDS Integers, Sequences, FiniteSets, TLC

\* ---------------------------------------------------------------- bounds
\* Largest port number the socket layer accepts (65535 on a real host).
PortLimit == 2
\* Largest thread count the command line is given in the model.
MaxThreads == 2
\* Longest contact list the model lets add_contact build.
MaxContacts == 2

\* Ports the command line may name: one port lies beyond the socket
\* layer's limit, as -e 65536 does on a real host.
Ports == 1..(PortLimit + 1)
\* Thread counts the command line may name (argparse type=int accepts
\* zero and negative values).
ThreadCounts == (0 - 1)..MaxThreads
\* Identities of the threads scan_ports may start.
Workers == 1..MaxThreads

\* What connect_ex does for a port the socket layer accepts:
\*   "open"    returns 0
\*   "closed"  returns an errno (refused, timed out, unreachable)
\*   "sockerr" raises socket.error (OSError, e.g. socket.gaierror)
\* and for a port beyond PortLimit it raises OverflowError ("fault").
ValidOutcomes == {"open", "closed", "sockerr"}

VARIABLES
    start_port,        \* args.start
    end_port,          \* args.end
    num_threads,       \* args.threads
    outcome,           \* the network: what connect_ex does for each port
    mainpc,            \* position of the main thread
    put_port,          \* loop variable of the enqueue loop
    thread_list,       \* scan_ports' thread_list (worker ids, in start order)
    join_idx,          \* position of the thread.join() loop
    result,            \* value returned by scan_ports
    console,           \* what main printed (message tags)
    report_file,       \* content written to args.output
    queue,             \* Queue items
    unfinished,        \* Queue.unfinished_tasks
    open_ports,        \* shared list of (port, service)
    lock,              \* threading.Lock: 0 free, else the owning worker
    progress_counter,  \* progress_counter[0]
    wpc,               \* position of each worker thread
    wport,             \* each worker's local variable port
    open_sockets,      \* sockets created and not yet released
    wtmp,              \* each worker's operand of += 1: the value read from progress_counter[0], 0 when none is held
    rendered,          \* the values of current passed to print_progress, in order
    contacts,          \* ContactList.py: the in-memory list of contacts
    contacts_file,     \* ContactList.py: contacts.json
    last_op,           \* ContactList.py: the last menu operation and what it started from
    enqueued,          \* history: how often each port was put
    withdrawn,         \* history: how often each port was returned by get_nowait
    probed             \* history: how often scan_port was called for each port

inputs == <<start_port, end_port, num_threads, outcome>>
mainvars == <<mainpc, put_port, thread_list, join_idx, result, console, report_file>>
shared == <<queue, unfinished, open_ports, lock, progress_counter>>
workervars == <<wpc, wport, open_sockets>>
history == <<enqueued, withdrawn, probed>>
rendering == <<wtmp, rendered>>
contactvars == <<contacts, contacts_file, last_op>>
vars == <<inputs, mainvars, shared, workervars, history, rendering, contactvars>>

\* ---------------------------------------------------------------- helpers
Min(a, b) == IF a <= b THEN a ELSE b

\* scan_ports has not returned / no report file was written: placeholders
\* that are no list of (port, service) of the port range
NoResult == <<<<0, "none">>>>
NoFile == <<<<0, "nofile">>>>

\* scan_ports: total_ports = end_port - start_port + 1
total_ports == end_port - start_port + 1

\* scan_ports: actual_threads = min(num_threads, total_ports)
actual_threads == Min(num_threads, total_ports)

\* get_service_name: getservbyport, "unknown" when the lookup raises OSError
get_service_name(port) == IF port = 1 THEN "tcpmux" ELSE "unknown"

\* sorted(): stable insertion of one (port, service) tuple by port number
RECURSIVE Insert(_, _)
Insert(x, s) ==
    IF s = <<>> THEN <<x>>
    ELSE IF x[1] < Head(s)[1] THEN <<x>> \o s
    ELSE <<Head(s)>> \o Insert(x, Tail(s))

RECURSIVE sorted(_)
sorted(s) == IF s = <<>> THEN <<>> ELSE Insert(s[Len(s)], sorted(SubSeq(s, 1, Len(s) - 1)))

\* ContactList.py: contacts.json does not exist; no menu operation was run
MissingFile == [kind |-> "missing", data |-> <<>>]
NoOp == [op |-> "none", typed |-> <<>>, before |-> <<>>, file_before |-> MissingFile]

\* The main thread has left main(): the interpreter exits and kills the
\* daemon workers.
Terminal == {"completed", "aborted_resolution", "aborted_interrupt"}
ProcessAlive == mainpc \notin Terminal

\* A thread that has ended, by leaving the loop or by an uncaught exception.
Ended == {"exited", "crashed"}

\* ---------------------------------------------------------------- initial state
Init ==
    /\ start_port \in Ports
    /\ end_port \in Ports
    /\ num_threads \in ThreadCounts
    /\ outcome \in [Ports -> ValidOutcomes \cup {"fault"}]
    /\ \A p \in Ports : (outcome[p] = "fault") <=> (p > PortLimit)
    /\ mainpc = "resolve"
    /\ put_port = 0
    /\ thread_list = <<>>
    /\ join_idx = 1
    /\ result = NoResult
    /\ console = <<>>
    /\ report_file = NoFile
    /\ queue = <<>>
    /\ unfinished = 0
    /\ open_ports = <<>>
    /\ lock = 0
    /\ progress_counter = 0
    /\ wpc = [w \in Workers |-> "unstarted"]
    /\ wport = [w \in Workers |-> 0]
    /\ open_sockets = 0
    /\ wtmp = [w \in Workers |-> 0]
    /\ rendered = <<>>
    /\ contacts = <<>>
    /\ contacts_file = MissingFile
    /\ last_op = NoOp
    /\ enqueued = [p \in Ports |-> 0]
    /\ withdrawn = [p \in Ports |-> 0]
    /\ probed = [p \in Ports |-> 0]

\* ---------------------------------------------------------------- main thread
\* Faulty variant of M_resolve that C8 must exclude: the gaierror handler prints the error
\* and the scan goes on.
M_resolve_continue ==
    /\ mainpc = "resolve"
    /\ \E ok \in BOOLEAN :
        console' = Append(console, IF ok THEN "banner" ELSE "Error: Could not resolve hostname")
    /\ mainpc' = "put"
    /\ put_port' = start_port
    /\ UNCHANGED <<inputs, contactvars, rendering, thread_list, join_idx, result, report_file, shared, workervars, history>>

\* main: ip = socket.gethostbyname(args.target); on success the banner is
\* printed and scan_ports is entered, socket.gaierror goes to the handler.
M_resolve ==
    /\ mainpc = "resolve"
    /\ \E ok \in BOOLEAN :
        IF ok
        THEN /\ console' = Append(console, "banner")
             /\ mainpc' = "put"
             /\ put_port' = start_port
        ELSE /\ console' = Append(console, "Error: Could not resolve hostname")
             /\ mainpc' = "aborted_resolution"
             /\ UNCHANGED put_port
    /\ UNCHANGED <<inputs, contactvars, rendering, thread_list, join_idx, result, report_file, shared, workervars, history>>

\* Faulty variant of M_put that C14 must exclude: range(start_port, end_port)
\* leaves out the last port.
M_put_exclusive ==
    /\ mainpc = "put"
    /\ IF put_port < end_port
       THEN /\ queue' = Append(queue, put_port)
            /\ unfinished' = unfinished + 1
            /\ enqueued' = [enqueued EXCEPT ![put_port] = @ + 1]
            /\ put_port' = put_port + 1
            /\ UNCHANGED mainpc
       ELSE /\ mainpc' = "spawn"
            /\ UNCHANGED <<queue, unfinished, enqueued, put_port>>
    /\ UNCHANGED <<inputs, contactvars, rendering, thread_list, join_idx, result, console, report_file,
                   open_ports, lock, progress_counter, workervars, withdrawn, probed>>

\* scan_ports: for port in range(start_port, end_port + 1): queue.put(port)
M_put ==
    /\ mainpc = "put"
    /\ IF put_port <= end_port
       THEN /\ queue' = Append(queue, put_port)
            /\ unfinished' = unfinished + 1
            /\ enqueued' = [enqueued EXCEPT ![put_port] = @ + 1]
            /\ put_port' = put_port + 1
            /\ UNCHANGED mainpc
       ELSE /\ mainpc' = "spawn"
            /\ UNCHANGED <<queue, unfinished, enqueued, put_port>>
    /\ UNCHANGED <<inputs, contactvars, rendering, thread_list, join_idx, result, console, report_file,
                   open_ports, lock, progress_counter, workervars, withdrawn, probed>>

\* Faulty variant of M_spawn that C7 must exclude: range(num_threads) instead of
\* range(actual_threads).
M_spawn_requested ==
    /\ mainpc = "spawn"
    /\ IF Len(thread_list) < num_threads
       THEN LET w == Len(thread_list) + 1 IN
            /\ wpc' = [wpc EXCEPT ![w] = "get"]
            /\ thread_list' = Append(thread_list, w)
            /\ UNCHANGED mainpc
       ELSE /\ mainpc' = "queue_join"
            /\ UNCHANGED <<wpc, thread_list>>
    /\ UNCHANGED <<inputs, contactvars, rendering, put_port, join_idx, result, console, report_file, shared,
                   wport, open_sockets, history>>

\* scan_ports: for _ in range(actual_threads): thread.start(); thread_list.append
M_spawn ==
    /\ mainpc = "spawn"
    /\ IF Len(thread_list) < actual_threads
       THEN LET w == Len(thread_list) + 1 IN
            /\ wpc' = [wpc EXCEPT ![w] = "get"]
            /\ thread_list' = Append(thread_list, w)
            /\ UNCHANGED mainpc
       ELSE /\ mainpc' = "queue_join"
            /\ UNCHANGED <<wpc, thread_list>>
    /\ UNCHANGED <<inputs, contactvars, rendering, put_port, join_idx, result, console, report_file, shared,
                   wport, open_sockets, history>>

\* scan_ports: queue.join() returns when unfinished_tasks is 0
M_queue_join ==
    /\ mainpc = "queue_join"
    /\ unfinished = 0
    /\ mainpc' = "thread_join"
    /\ UNCHANGED <<inputs, contactvars, rendering, put_port, thread_list, join_idx, result, console, report_file,
                   shared, workervars, history>>

\* Faulty variant of M_thread_join that C4 must exclude: the loop does not wait for the
\* thread to end.
M_thread_join_nowait ==
    /\ mainpc = "thread_join"
    /\ IF join_idx <= Len(thread_list)
       THEN /\ join_idx' = join_idx + 1
            /\ UNCHANGED mainpc
       ELSE /\ mainpc' = "return"
            /\ UNCHANGED join_idx
    /\ UNCHANGED <<inputs, contactvars, rendering, put_port, thread_list, result, console, report_file,
                   shared, workervars, history>>

\* scan_ports: for thread in thread_list: thread.join()
M_thread_join ==
    /\ mainpc = "thread_join"
    /\ IF join_idx <= Len(thread_list)
       THEN /\ wpc[thread_list[join_idx]] \in Ended
            /\ join_idx' = join_idx + 1
            /\ UNCHANGED mainpc
       ELSE /\ mainpc' = "return"
            /\ UNCHANGED join_idx
    /\ UNCHANGED <<inputs, contactvars, rendering, put_port, thread_list, result, console, report_file,
                   shared, workervars, history>>

\* Faulty variant of M_return that C3 must exclude: return open_ports, unsorted.
M_return_unsorted ==
    /\ mainpc = "return"
    /\ result' = open_ports
    /\ mainpc' = "report"
    /\ UNCHANGED <<inputs, contactvars, rendering, put_port, thread_list, join_idx, console, report_file,
                   shared, workervars, history>>

\* scan_ports: return sorted(open_ports)
M_return ==
    /\ mainpc = "return"
    /\ result' = sorted(open_ports)
    /\ mainpc' = "report"
    /\ UNCHANGED <<inputs, contactvars, rendering, put_port, thread_list, join_idx, console, report_file,
                   shared, workervars, history>>

\* main: print_results(...) and, when -o is given, the report file
M_report ==
    /\ mainpc = "report"
    /\ console' = Append(console, "results")
    /\ \E output \in BOOLEAN :
        report_file' = IF output THEN result ELSE report_file
    /\ mainpc' = "completed"
    /\ UNCHANGED <<inputs, contactvars, rendering, put_port, thread_list, join_idx, result, shared, workervars, history>>

\* main: KeyboardInterrupt raised in the main thread inside the try block
Interrupt ==
    /\ ProcessAlive
    /\ console' = Append(console, "Scan interrupted by user")
    /\ mainpc' = "aborted_interrupt"
    /\ UNCHANGED <<inputs, contactvars, rendering, put_port, thread_list, join_idx, result, report_file,
                   shared, workervars, history>>

MainStep ==
    \/ M_resolve
    \/ M_put
    \/ M_spawn
    \/ M_queue_join
    \/ M_thread_join
    \/ M_return
    \/ M_report

\* ---------------------------------------------------------------- worker threads
\* Faulty variant of W_get that C1 must exclude: the worker reads the head of the queue
\* without removing it.
W_get_peek(w) ==
    /\ ProcessAlive
    /\ wpc[w] = "get"
    /\ IF queue # <<>>
       THEN /\ wport' = [wport EXCEPT ![w] = Head(queue)]
            /\ withdrawn' = [withdrawn EXCEPT ![Head(queue)] = @ + 1]
            /\ wpc' = [wpc EXCEPT ![w] = "socket"]
            /\ UNCHANGED queue
       ELSE /\ wpc' = [wpc EXCEPT ![w] = "exited"]
            /\ UNCHANGED <<wport, queue, withdrawn>>
    /\ UNCHANGED <<inputs, contactvars, rendering, mainvars, unfinished, open_ports, lock, progress_counter,
                   open_sockets, enqueued, probed>>

\* Faulty variant of W_get that C5 must exclude: a blocking queue.get() that waits for
\* an item instead of raising Empty.
W_get_blocking(w) ==
    /\ ProcessAlive
    /\ wpc[w] = "get"
    /\ queue # <<>>
    /\ wport' = [wport EXCEPT ![w] = Head(queue)]
    /\ queue' = Tail(queue)
    /\ withdrawn' = [withdrawn EXCEPT ![Head(queue)] = @ + 1]
    /\ wpc' = [wpc EXCEPT ![w] = "socket"]
    /\ UNCHANGED <<inputs, contactvars, rendering, mainvars, unfinished, open_ports, lock, progress_counter,
                   open_sockets, enqueued, probed>>

\* worker: port = queue.get_nowait(); Empty leaves the loop
W_get(w) ==
    /\ ProcessAlive
    /\ wpc[w] = "get"
    /\ IF queue # <<>>
       THEN /\ wport' = [wport EXCEPT ![w] = Head(queue)]
            /\ queue' = Tail(queue)
            /\ withdrawn' = [withdrawn EXCEPT ![Head(queue)] = @ + 1]
            /\ wpc' = [wpc EXCEPT ![w] = "socket"]
       ELSE /\ wpc' = [wpc EXCEPT ![w] = "exited"]
            /\ UNCHANGED <<wport, queue, withdrawn>>
    /\ UNCHANGED <<inputs, contactvars, rendering, mainvars, unfinished, open_ports, lock, progress_counter,
                   open_sockets, enqueued, probed>>

\* Faulty variant of S_socket that C11 must exclude: the whole probe runs
\* inside "with lock".
S_socket_locked(w) ==
    /\ ProcessAlive
    /\ wpc[w] = "socket"
    /\ lock = 0
    /\ lock' = w
    /\ probed' = [probed EXCEPT ![wport[w]] = @ + 1]
    /\ open_sockets' = open_sockets + 1
    /\ wpc' = [wpc EXCEPT ![w] = "connect"]
    /\ UNCHANGED <<inputs, contactvars, rendering, mainvars, queue, unfinished, open_ports,
                   progress_counter, wport, enqueued, withdrawn>>

\* scan_port: sock = socket.socket(...); sock.settimeout(1)
S_socket(w) ==
    /\ ProcessAlive
    /\ wpc[w] = "socket"
    /\ probed' = [probed EXCEPT ![wport[w]] = @ + 1]
    /\ open_sockets' = open_sockets + 1
    /\ wpc' = [wpc EXCEPT ![w] = "connect"]
    /\ UNCHANGED <<inputs, contactvars, rendering, mainvars, shared, wport, enqueued, withdrawn>>

\* Faulty variant of S_connect that C2 must exclude: the result of connect_ex is not
\* tested, every returned attempt is recorded.
S_connect_untested(w) ==
    /\ ProcessAlive
    /\ wpc[w] = "connect"
    /\ \/ /\ outcome[wport[w]] \in {"open", "closed"}
          /\ wpc' = [wpc EXCEPT ![w] = "lock_append"]
          /\ UNCHANGED open_sockets
       \/ /\ outcome[wport[w]] = "sockerr"
          /\ wpc' = [wpc EXCEPT ![w] = "lock_progress"]
          /\ \E collected \in BOOLEAN :
               open_sockets' = IF collected THEN open_sockets - 1 ELSE open_sockets
       \/ /\ outcome[wport[w]] = "fault"
          /\ wpc' = [wpc EXCEPT ![w] = "crashed"]
          /\ \E collected \in BOOLEAN :
               open_sockets' = IF collected THEN open_sockets - 1 ELSE open_sockets
    /\ UNCHANGED <<inputs, contactvars, rendering, mainvars, shared, wport, history>>

\* scan_port: result = sock.connect_ex((ip, port)).  A raised exception
\* skips sock.close(): the socket object is left to the garbage collector,
\* which may or may not have released it.
S_connect(w) ==
    /\ ProcessAlive
    /\ wpc[w] = "connect"
    /\ \/ /\ outcome[wport[w]] = "open"
          /\ wpc' = [wpc EXCEPT ![w] = "lock_append"]
          /\ UNCHANGED open_sockets
       \/ /\ outcome[wport[w]] = "closed"
          /\ wpc' = [wpc EXCEPT ![w] = "close"]
          /\ UNCHANGED open_sockets
       \/ /\ outcome[wport[w]] = "sockerr"
          /\ wpc' = [wpc EXCEPT ![w] = "lock_progress"]
          /\ \E collected \in BOOLEAN :
               open_sockets' = IF collected THEN open_sockets - 1 ELSE open_sockets
       \/ /\ outcome[wport[w]] = "fault"
          /\ wpc' = [wpc EXCEPT ![w] = "crashed"]
          /\ \E collected \in BOOLEAN :
               open_sockets' = IF collected THEN open_sockets - 1 ELSE open_sockets
    /\ UNCHANGED <<inputs, contactvars, rendering, mainvars, shared, wport, history>>

\* scan_port: with lock:   (result == 0)
S_acquire(w) ==
    /\ ProcessAlive
    /\ wpc[w] = "lock_append"
    /\ lock = 0
    /\ lock' = w
    /\ wpc' = [wpc EXCEPT ![w] = "append"]
    /\ UNCHANGED <<inputs, contactvars, rendering, mainvars, queue, unfinished, open_ports, progress_counter,
                   wport, open_sockets, history>>

\* Faulty variant of S_append that C16 must exclude: the tuple is not added to
\* the shared list.
S_append_lost(w) ==
    /\ ProcessAlive
    /\ wpc[w] = "append"
    /\ lock' = 0
    /\ wpc' = [wpc EXCEPT ![w] = "close"]
    /\ UNCHANGED <<inputs, contactvars, rendering, mainvars, queue, unfinished, open_ports,
                   progress_counter, wport, open_sockets, history>>

\* scan_port: open_ports.append((port, get_service_name(port))); lock released
S_append(w) ==
    /\ ProcessAlive
    /\ wpc[w] = "append"
    /\ open_ports' = Append(open_ports, <<wport[w], get_service_name(wport[w])>>)
    /\ lock' = 0
    /\ wpc' = [wpc EXCEPT ![w] = "close"]
    /\ UNCHANGED <<inputs, contactvars, rendering, mainvars, queue, unfinished, progress_counter,
                   wport, open_sockets, history>>

\* scan_port: sock.close()
S_close(w) ==
    /\ ProcessAlive
    /\ wpc[w] = "close"
    /\ open_sockets' = open_sockets - 1
    /\ wpc' = [wpc EXCEPT ![w] = "lock_progress"]
    /\ UNCHANGED <<inputs, contactvars, rendering, mainvars, shared, wport, history>>

\* Faulty variant of W_acquire that C12 must exclude: the progress update is
\* entered without taking the lock.
W_acquire_unlocked(w) ==
    /\ ProcessAlive
    /\ wpc[w] = "lock_progress"
    /\ wpc' = [wpc EXCEPT ![w] = "load"]
    /\ UNCHANGED <<inputs, contactvars, rendering, mainvars, shared,
                   wport, open_sockets, history>>

\* worker: with lock:
W_acquire(w) ==
    /\ ProcessAlive
    /\ wpc[w] = "lock_progress"
    /\ lock = 0
    /\ lock' = w
    /\ wpc' = [wpc EXCEPT ![w] = "load"]
    /\ UNCHANGED <<inputs, contactvars, rendering, mainvars, queue, unfinished, open_ports, progress_counter,
                   wport, open_sockets, history>>

\* worker: progress_counter[0] += 1, the read of the old value
W_load(w) ==
    /\ ProcessAlive
    /\ wpc[w] = "load"
    /\ wtmp' = [wtmp EXCEPT ![w] = progress_counter]
    /\ wpc' = [wpc EXCEPT ![w] = "progress"]
    /\ UNCHANGED <<inputs, contactvars, rendered, mainvars, shared,
                   wport, open_sockets, history>>

\* Faulty variant of W_progress that C17 must exclude: print_progress is given
\* the value the counter had before the increment.
W_progress_stale(w) ==
    /\ ProcessAlive
    /\ wpc[w] = "progress"
    /\ progress_counter' = wtmp[w] + 1
    /\ rendered' = Append(rendered, wtmp[w])
    /\ wtmp' = [wtmp EXCEPT ![w] = 0]
    /\ lock' = 0
    /\ wpc' = [wpc EXCEPT ![w] = "task_done"]
    /\ UNCHANGED <<inputs, contactvars, mainvars, queue, unfinished, open_ports,
                   wport, open_sockets, history>>

\* worker: progress_counter[0] += 1, the write of the new value;
\* print_progress(progress_counter[0], total_ports); lock released
W_progress(w) ==
    /\ ProcessAlive
    /\ wpc[w] = "progress"
    /\ progress_counter' = wtmp[w] + 1
    /\ rendered' = Append(rendered, wtmp[w] + 1)
    /\ wtmp' = [wtmp EXCEPT ![w] = 0]
    /\ lock' = 0
    /\ wpc' = [wpc EXCEPT ![w] = "task_done"]
    /\ UNCHANGED <<inputs, contactvars, mainvars, queue, unfinished, open_ports,
                   wport, open_sockets, history>>

\* worker: queue.task_done()
W_task_done(w) ==
    /\ ProcessAlive
    /\ wpc[w] = "task_done"
    /\ unfinished' = unfinished - 1
    /\ wpc' = [wpc EXCEPT ![w] = "get"]
    /\ UNCHANGED <<inputs, contactvars, rendering, mainvars, queue, open_ports, lock, progress_counter,
                   wport, open_sockets, history>>

WorkerStep(w) ==
    \/ W_get(w)
    \/ S_socket(w)
    \/ S_connect(w)
    \/ S_acquire(w)
    \/ S_append(w)
    \/ S_close(w)
    \/ W_acquire(w)
    \/ W_load(w)
    \/ W_progress(w)
    \/ W_task_done(w)

\* ---------------------------------------------------------------- specifications
Next ==
    \/ MainStep
    \/ Interrupt
    \/ \E w \in Workers : WorkerStep(w)

Spec == Init /\ [][Next]_vars

\* The scan without a user interrupt, under the scheduling a Python
\* interpreter gives its threads: a thread that can take a step is
\* eventually scheduled.
NextNoInterrupt ==
    \/ MainStep
    \/ \E w \in Workers : WorkerStep(w)

FairSpec ==
    /\ Init
    /\ [][NextNoInterrupt]_vars
    /\ WF_vars(MainStep)
    /\ \A w \in Workers : WF_vars(WorkerStep(w))

\* ---------------------------------------------------------------- Samplefromclass-portscanner.py
\* The class sample has the same scan_ports and scan_port, without the
\* progress update and the report file; open_ports holds bare port numbers
\* (1-tuples here).  Its worker names the handler "except Queue.Empty" with
\* Queue the class imported by "from queue import Queue": the class has no
\* attribute Empty, so evaluating the handler for a raised exception raises
\* AttributeError, which ends the thread.

\* worker: port = queue.get_nowait(); on Empty the handler's expression
\* Queue.Empty raises AttributeError
Sample_get(w) ==
    /\ ProcessAlive
    /\ wpc[w] = "get"
    /\ IF queue # <<>>
       THEN /\ wport' = [wport EXCEPT ![w] = Head(queue)]
            /\ queue' = Tail(queue)
            /\ withdrawn' = [withdrawn EXCEPT ![Head(queue)] = @ + 1]
            /\ wpc' = [wpc EXCEPT ![w] = "socket"]
       ELSE /\ wpc' = [wpc EXCEPT ![w] = "crashed"]
            /\ UNCHANGED <<wport, queue, withdrawn>>
    /\ UNCHANGED <<inputs, contactvars, rendering, mainvars, unfinished, open_ports, lock,
                   progress_counter, open_sockets, enqueued, probed>>

\* scan_port: result = sock.connect_ex((ip, port)); socket.error is passed
\* over, any other exception ends the thread
Sample_connect(w) ==
    /\ ProcessAlive
    /\ wpc[w] = "connect"
    /\ \/ /\ outcome[wport[w]] = "open"
          /\ wpc' = [wpc EXCEPT ![w] = "lock_append"]
          /\ UNCHANGED open_sockets
       \/ /\ outcome[wport[w]] = "closed"
          /\ wpc' = [wpc EXCEPT ![w] = "close"]
          /\ UNCHANGED open_sockets
       \/ /\ outcome[wport[w]] = "sockerr"
          /\ wpc' = [wpc EXCEPT ![w] = "task_done"]
          /\ \E collected \in BOOLEAN :
               open_sockets' = IF collected THEN open_sockets - 1 ELSE open_sockets
       \/ /\ outcome[wport[w]] = "fault"
          /\ wpc' = [wpc EXCEPT ![w] = "crashed"]
          /\ \E collected \in BOOLEAN :
               open_sockets' = IF collected THEN open_sockets - 1 ELSE open_sockets
    /\ UNCHANGED <<inputs, contactvars, rendering, mainvars, shared, wport, history>>

\* scan_port: open_ports.append(port); lock released
Sample_append(w) ==
    /\ ProcessAlive
    /\ wpc[w] = "append"
    /\ open_ports' = Append(open_ports, <<wport[w]>>)
    /\ lock' = 0
    /\ wpc' = [wpc EXCEPT ![w] = "close"]
    /\ UNCHANGED <<inputs, contactvars, rendering, mainvars, queue, unfinished, progress_counter,
                   wport, open_sockets, history>>

\* scan_port: sock.close(), then back in worker
Sample_close(w) ==
    /\ ProcessAlive
    /\ wpc[w] = "close"
    /\ open_sockets' = open_sockets - 1
    /\ wpc' = [wpc EXCEPT ![w] = "task_done"]
    /\ UNCHANGED <<inputs, contactvars, rendering, mainvars, shared, wport, history>>

\* main: print_results(target_ip, open_ports, duration)
Sample_report ==
    /\ mainpc = "report"
    /\ console' = Append(console, "results")
    /\ mainpc' = "completed"
    /\ UNCHANGED <<inputs, contactvars, rendering, put_port, thread_list, join_idx, result,
                   report_file, shared, workervars, history>>

\* The statements the sample shares word for word with NewPortScanner.py are
\* the actions above (resolve, enqueue, start, both joins, return sorted,
\* socket creation, lock entry, task_done).
SampleMainStep ==
    \/ M_resolve
    \/ M_put
    \/ M_spawn
    \/ M_queue_join
    \/ M_thread_join
    \/ M_return
    \/ Sample_report

SampleWorkerStep(w) ==
    \/ Sample_get(w)
    \/ S_socket(w)
    \/ Sample_connect(w)
    \/ S_acquire(w)
    \/ Sample_append(w)
    \/ Sample_close(w)
    \/ W_task_done(w)

SampleNext ==
    \/ SampleMainStep
    \/ Interrupt
    \/ \E w \in Workers : SampleWorkerStep(w)

SampleSpec == Init /\ [][SampleNext]_vars

\* ---------------------------------------------------------------- ContactList.py
\* The contact list is a program of its own: the scanner's variables keep
\* the values they have when no scan is running.
scanvars == <<inputs, mainvars, shared, workervars, history, rendering>>

\* What the user may type for a contact: input() three times
ContactSet == [name : {"ann", "bob"}, phone : {"555"}, email : {"a@b.c"}]

\* What the user may type as the number of the contact to delete
Digits == {"0", "1", "2", "3", "4", "5", "6", "7", "8", "9"}
Chars == Digits \cup {"-", "x"}
Typed == {<<>>} \cup {<<c>> : c \in Chars} \cup {<<c, d>> : c \in Chars, d \in Chars}

DigitValue(c) ==
    CASE c = "0" -> 0 [] c = "1" -> 1 [] c = "2" -> 2 [] c = "3" -> 3 [] c = "4" -> 4
      [] c = "5" -> 5 [] c = "6" -> 6 [] c = "7" -> 7 [] c = "8" -> 8 [] c = "9" -> 9

\* int(): the value of a string of digits, most significant first
RECURSIVE DigitsValue(_)
DigitsValue(t) ==
    IF t = <<>> THEN 0
    ELSE 10 * DigitsValue(SubSeq(t, 1, Len(t) - 1)) + DigitValue(t[Len(t)])

AllDigits(t) == t # <<>> /\ \A i \in 1..Len(t) : t[i] \in Digits

\* int(input(...)): an optional sign and at least one digit, ValueError
\* otherwise
int(t) ==
    IF t # <<>> /\ t[1] = "-" /\ AllDigits(Tail(t))
        THEN [ok |-> TRUE, value |-> 0 - DigitsValue(Tail(t))]
    ELSE IF AllDigits(t)
        THEN [ok |-> TRUE, value |-> DigitsValue(t)]
    ELSE [ok |-> FALSE, value |-> 0]

\* json.dump(contacts, file): an array with one object per contact, its keys
\* in insertion order
json_dump(c) ==
    [i \in 1..Len(c) |->
        << <<"name", c[i].name>>, <<"phone", c[i].phone>>, <<"email", c[i].email>> >>]

\* the value an object of the array holds under a key
Member(obj, key) == (CHOOSE i \in 1..Len(obj) : obj[i][1] = key)

\* json.load(file): back to a list of dicts
json_load(d) ==
    [i \in 1..Len(d) |->
        [name |-> d[i][Member(d[i], "name")][2],
         phone |-> d[i][Member(d[i], "phone")][2],
         email |-> d[i][Member(d[i], "email")][2]]]

\* contacts.json holds no JSON
CorruptFile == [kind |-> "corrupt", data |-> <<>>]

\* save_contacts: open(CONTACTS_FILE, 'w'); json.dump(contacts, file)
save_contacts(c) == [kind |-> "json", data |-> json_dump(c)]

\* load_contacts: json.load, [] on FileNotFoundError and JSONDecodeError
load_contacts(f) == IF f.kind = "json" THEN json_load(f.data) ELSE <<>>

\* the lists of up to MaxContacts contacts
ContactLists == UNION {[1..n -> ContactSet] : n \in 0..MaxContacts}

\* list.pop(index), index counted from 0: the list without that element
pop(c, index) == SubSeq(c, 1, index) \o SubSeq(c, index + 2, Len(c))

\* main: contacts = load_contacts(), from any contacts.json
ContactInit ==
    /\ start_port = 1
    /\ end_port = 1
    /\ num_threads = 0
    /\ outcome = [p \in Ports |-> IF p > PortLimit THEN "fault" ELSE "closed"]
    /\ mainpc = "resolve"
    /\ put_port = 0
    /\ thread_list = <<>>
    /\ join_idx = 1
    /\ result = NoResult
    /\ console = <<>>
    /\ report_file = NoFile
    /\ queue = <<>>
    /\ unfinished = 0
    /\ open_ports = <<>>
    /\ lock = 0
    /\ progress_counter = 0
    /\ wpc = [w \in Workers |-> "unstarted"]
    /\ wport = [w \in Workers |-> 0]
    /\ open_sockets = 0
    /\ wtmp = [w \in Workers |-> 0]
    /\ rendered = <<>>
    /\ enqueued = [p \in Ports |-> 0]
    /\ withdrawn = [p \in Ports |-> 0]
    /\ probed = [p \in Ports |-> 0]
    /\ contacts_file \in {MissingFile, CorruptFile} \cup {save_contacts(c) : c \in ContactLists}
    /\ contacts = load_contacts(contacts_file)
    /\ last_op = NoOp

\* add_contact: three inputs, contacts.append, save_contacts
add_contact ==
    /\ Len(contacts) < MaxContacts
    /\ \E new \in ContactSet :
        /\ contacts' = Append(contacts, new)
        /\ contacts_file' = save_contacts(contacts')
    /\ last_op' = [op |-> "add", typed |-> <<>>, before |-> contacts, file_before |-> contacts_file]
    /\ UNCHANGED scanvars

\* view_contacts: prints, changes nothing
view_contacts ==
    /\ last_op' = [op |-> "view", typed |-> <<>>, before |-> contacts, file_before |-> contacts_file]
    /\ UNCHANGED <<scanvars, contacts, contacts_file>>

\* Faulty variant of delete_contact that C18 must exclude: the list is not
\* saved after the pop.
delete_contact_unsaved ==
    /\ \E typed \in Typed :
        LET n == int(typed)
            index == n.value - 1
        IN  /\ IF n.ok /\ 0 <= index /\ index < Len(contacts)
               THEN contacts' = pop(contacts, index)
               ELSE contacts' = contacts
            /\ UNCHANGED contacts_file
            /\ last_op' = [op |-> "delete", typed |-> typed, before |-> contacts,
                           file_before |-> contacts_file]
    /\ UNCHANGED scanvars

\* delete_contact: index = int(input(...)) - 1; a number in range pops and
\* saves, any other number and ValueError only print
delete_contact ==
    /\ \E typed \in Typed :
        LET n == int(typed)
            index == n.value - 1
        IN  /\ IF n.ok /\ 0 <= index /\ index < Len(contacts)
               THEN /\ contacts' = pop(contacts, index)
                    /\ contacts_file' = save_contacts(contacts')
               ELSE UNCHANGED <<contacts, contacts_file>>
            /\ last_op' = [op |-> "delete", typed |-> typed, before |-> contacts,
                           file_before |-> contacts_file]
    /\ UNCHANGED scanvars

\* main: the menu loop (options 1, 2, 3)
ContactNext ==
    \/ add_contact
    \/ view_contacts
    \/ delete_contact

ContactSpec == ContactInit /\ [][ContactNext]_vars

\* ---------------------------------------------------------------- vocabulary of the claims
InRange(p) == start_port <= p /\ p <= end_port
RangePorts == {p \in Ports : InRange(p)}
ValidRange == start_port <= end_port
Max(a, b) == IF a >= b THEN a ELSE b

\* queue.join() has returned
Drained == mainpc \in {"thread_join", "return", "report", "completed"}
\* the enqueue loop has ended
Queued == mainpc \in {"spawn", "queue_join"} \/ Drained
\* the start loop has ended
Spawned == mainpc = "queue_join" \/ Drained
\* scan_ports has returned
Returned == mainpc \in {"report", "completed"}

\* worker w is between get_nowait and task_done
Busy(w) == wpc[w] \notin {"unstarted", "get", "exited", "crashed"}
\* worker w is a running thread
Alive(w) == wpc[w] \notin {"unstarted", "exited", "crashed"}
\* worker w is inside scan_port with its socket created and not yet closed
HoldsSocket(w) == wpc[w] \in {"connect", "lock_append", "append", "close"}

PortsOf(s) == {s[i][1] : i \in 1..Len(s)}
NoDuplicates(s) == \A i, j \in 1..Len(s) : s[i][1] = s[j][1] => i = j

\* the reachable ports of [start_port, end_port] from p on, ascending
RECURSIVE ReachableFrom(_)
ReachableFrom(p) ==
    IF p > end_port THEN <<>>
    ELSE (IF outcome[p] = "open" THEN <<<<p, get_service_name(p)>>>> ELSE <<>>)
         \o ReachableFrom(p + 1)

\* ---------------------------------------------------------------- claims
\* C1: every port of [start_port, end_port] is enqueued exactly once, is
\* withdrawn by at most one worker and probed at most once at any time, no
\* worker ever holds a port another worker holds, and once queue.join() has
\* returned every port of the range has been withdrawn exactly once and probed
\* exactly once (none skipped, none retried).
C1_ExactlyOnce ==
    /\ \A p \in Ports :
        /\ enqueued[p] <= 1
        /\ withdrawn[p] <= enqueued[p]
        /\ probed[p] <= withdrawn[p]
        /\ ~InRange(p) => enqueued[p] = 0
    /\ \A w1, w2 \in Workers : (Busy(w1) /\ Busy(w2) /\ w1 # w2) => wport[w1] # wport[w2]
    /\ Queued => \A p \in RangePorts : enqueued[p] = 1
    /\ Drained => \A p \in RangePorts : withdrawn[p] = 1 /\ probed[p] = 1

\* C1 witness: a scan of several ports by two workers has completed.
C1_Witness ==
    /\ mainpc = "completed"
    /\ Len(thread_list) >= 2
    /\ \A p \in RangePorts : probed[p] = 1
    /\ Cardinality(RangePorts) >= 2

\* C2: open_ports, and the value scan_ports returns, hold only ports of the
\* range whose connect_ex returned 0, each at most once.
C2_OnlyReachableInRange ==
    /\ \A p \in PortsOf(open_ports) : InRange(p) /\ outcome[p] = "open"
    /\ NoDuplicates(open_ports)
    /\ result # NoResult =>
        /\ \A p \in PortsOf(result) : InRange(p) /\ outcome[p] = "open"
        /\ NoDuplicates(result)

\* C2 witness: scan_ports returned a port while another port of the range
\* was probed and found unreachable.
C2_Witness ==
    /\ Returned
    /\ Len(result) >= 1
    /\ \E p \in RangePorts : outcome[p] = "closed" /\ probed[p] = 1

\* C3: the value scan_ports returns is exactly the reachable ports of the
\* range in ascending port order, whatever the order the probes completed in.
C3_SortedReachable ==
    result # NoResult => result = ReachableFrom(start_port)

\* C3 witness: scan_ports returned two ports that the workers had recorded in
\* descending order.
C3_Witness ==
    /\ Returned
    /\ Len(result) >= 2
    /\ open_ports # result
    /\ num_threads >= 1

\* C4: when the snapshot sorted(open_ports) is taken, and ever after, every
\* started worker has ended, the queue is empty with no unfinished task, every
\* port of the range has been withdrawn and processed, nobody holds the lock,
\* and open_ports still is what the snapshot saw.
C4_SnapshotAfterBarrier ==
    (mainpc = "return" \/ Returned) =>
        /\ \A w \in Workers : ~Alive(w)
        /\ \A i \in 1..Len(thread_list) : wpc[thread_list[i]] \in Ended
        /\ queue = <<>>
        /\ unfinished = 0
        /\ lock = 0
        /\ \A p \in RangePorts : withdrawn[p] = 1 /\ probed[p] = 1
        /\ progress_counter = Cardinality(RangePorts)
        /\ Returned => result = sorted(open_ports)

\* C4 witness: the orchestrator is about to take the snapshot after two
\* workers recorded a port.
C4_Witness ==
    /\ mainpc = "return"
    /\ Len(thread_list) >= 2
    /\ Len(open_ports) >= 1

\* C5: a call of scan_ports with a valid range, a thread count of at least 1
\* and every probe returning leads to its return: every worker has left its
\* loop on Empty, both waits have ended and the result has been reported.
C5_Completes ==
    (mainpc = "put" /\ ValidRange /\ num_threads >= 1
        /\ \A p \in RangePorts : outcome[p] # "fault")
    ~> (mainpc = "completed" /\ result # NoResult
        /\ \A w \in Workers : wpc[w] \in {"unstarted", "exited"})

\* C5 witness: a scan of several ports by two workers ran to completion.
C5_Witness ==
    /\ mainpc = "completed"
    /\ Len(thread_list) >= 2
    /\ \A i \in 1..Len(thread_list) : wpc[thread_list[i]] = "exited"
    /\ progress_counter >= 2

\* C6: a fault raised during the probe of one port is contained: the worker
\* that hit it is not ended by it, and when every worker has ended no task is
\* left unfinished, so that queue.join() can return.
C6_FaultContained ==
    /\ \A w \in Workers : wpc[w] # "crashed"
    /\ (Spawned /\ \A i \in 1..Len(thread_list) : wpc[thread_list[i]] \in Ended)
         => unfinished = 0

\* C7 as stated: once the start loop has ended the number of started workers
\* is min(num_threads, end_port - start_port + 1), and never more workers than
\* that are alive.
C7_WorkersEqualMin ==
    /\ Spawned => Len(thread_list) = actual_threads
    /\ Queued => Cardinality({w \in Workers : Alive(w)}) <= actual_threads

\* C7 amended: once the start loop has ended the number of started workers is
\* min(num_threads, end_port - start_port + 1) when that is positive and 0
\* otherwise, and never more workers than that are started or alive.
C7_WorkersEqualMinOrNone ==
    /\ Spawned => Len(thread_list) = Max(0, actual_threads)
    /\ Len(thread_list) <= Max(0, actual_threads)
    /\ Cardinality({w \in Workers : wpc[w] # "unstarted"}) = Len(thread_list)
    /\ Cardinality({w \in Workers : Alive(w)}) <= Max(0, actual_threads)

\* C7 witness: more threads were requested than there are ports, and the start
\* loop ended with one worker per port.
C7_Witness ==
    /\ Spawned
    /\ num_threads > total_ports
    /\ total_ports >= 1
    /\ Len(thread_list) = total_ports

\* C8: once the resolution error is reported the scan is aborted and nothing
\* else has happened or happens: nothing enqueued, no worker started, no port
\* probed, no result, no report file, no other message.
C8_ResolutionAbort ==
    (\E i \in 1..Len(console) : console[i] = "Error: Could not resolve hostname") =>
        /\ mainpc = "aborted_resolution"
        /\ console = <<"Error: Could not resolve hostname">>
        /\ queue = <<>>
        /\ unfinished = 0
        /\ \A p \in Ports : enqueued[p] = 0 /\ withdrawn[p] = 0 /\ probed[p] = 0
        /\ thread_list = <<>>
        /\ \A w \in Workers : wpc[w] = "unstarted"
        /\ open_ports = <<>>
        /\ open_sockets = 0
        /\ result = NoResult
        /\ report_file = NoFile

\* C8 witness: resolution failed for a scan that asked for workers on a
\* non-empty range.
C8_Witness ==
    /\ mainpc = "aborted_resolution"
    /\ ValidRange
    /\ num_threads >= 1

\* C9: after a user interrupt during Scanning or Draining the open ports the
\* workers had recorded are reported.
C9_PartialResultsReported ==
    (mainpc = "aborted_interrupt" /\ thread_list # <<>> /\ open_ports # <<>>) =>
        /\ result = sorted(open_ports)
        /\ \E i \in 1..Len(console) : console[i] = "results"

\* C10: outside scan_port no socket is open: the sockets that are open are
\* those of the workers that are inside scan_port between socket() and close().
C10_SocketsReleased ==
    open_sockets = Cardinality({w \in Workers : HoldsSocket(w)})

\* C11: a worker owns the lock only inside one of the two critical sections
\* (the append to open_ports, the progress update), so a worker that is
\* creating its socket, inside connect_ex or closing its socket does not own
\* it and the lock never keeps another worker out of connect_ex.
C11_NoLockAcrossConnect ==
    /\ \A w \in Workers : wpc[w] \in {"socket", "connect", "close"} => lock # w
    /\ \A w \in Workers : lock = w <=> wpc[w] \in {"append", "load", "progress"}
    /\ lock \in {0} \cup Workers

\* C11 witness: two workers are inside connect_ex at the same time.
C11_Witness ==
    \E w1, w2 \in Workers : w1 # w2 /\ wpc[w1] = "connect" /\ wpc[w2] = "connect"

\* the progress update of port p has been completed by the worker that took it
Counted(p) ==
    /\ probed[p] >= 1
    /\ \A w \in Workers : wport[w] = p => wpc[w] \in {"task_done", "get", "exited"}

\* C12: the progress counter starts at 0, every step leaves it alone or adds
\* exactly 1, it always equals the number of ports whose probe and progress
\* update are complete (reachable or not, so no increment is lost), it stays
\* within 0..total ports, and once queue.join() has returned it equals the
\* total number of ports.
C12_ProgressCounter ==
    /\ progress_counter = 0
    /\ [](/\ progress_counter = Cardinality({p \in Ports : Counted(p)})
          /\ 0 <= progress_counter
          /\ progress_counter <= Cardinality(RangePorts)
          /\ ValidRange => progress_counter <= total_ports
          /\ Drained => progress_counter = Cardinality(RangePorts))
    /\ [][progress_counter' = progress_counter \/ progress_counter' = progress_counter + 1]_vars

\* C12 witness: two workers have completed a scan that counted an unreachable
\* port as well as a reachable one.
C12_Witness ==
    /\ Drained
    /\ Len(thread_list) >= 2
    /\ progress_counter = total_ports
    /\ \E p, q \in RangePorts : outcome[p] = "open" /\ outcome[q] \in {"closed", "sockerr"}

\* C17: the values passed to print_progress are 1, 2, 3, ... in this order,
\* one per completed progress update, none twice and none skipped; the
\* completion line (current = total_ports) is rendered at most once, as the
\* last one, and has been rendered once queue.join() has returned.
C17_RenderedInOrder ==
    /\ \A i \in 1..Len(rendered) : rendered[i] = i
    /\ Len(rendered) = progress_counter
    /\ Len(rendered) <= Cardinality(RangePorts)
    /\ \A i \in 1..Len(rendered) : rendered[i] = total_ports => i = Len(rendered)
    /\ Cardinality({i \in 1..Len(rendered) : rendered[i] = total_ports}) <= 1
    /\ (Drained /\ ValidRange) =>
        /\ Len(rendered) = total_ports
        /\ rendered[Len(rendered)] = total_ports

\* C17 witness: two workers were started and the completion line of a scan of
\* several ports has been rendered.
C17_Witness ==
    /\ Len(thread_list) >= 2
    /\ Len(rendered) >= 2
    /\ rendered[Len(rendered)] = total_ports

\* scan_port has returned for port p
ScanReturned(p) ==
    /\ probed[p] >= 1
    /\ \A w \in Workers :
        wport[w] = p => wpc[w] \notin {"connect", "lock_append", "append", "close", "crashed"}

\* the ports whose probe has completed and found them unreachable
UnreachableDone == {p \in Ports : ScanReturned(p) /\ outcome[p] \in {"closed", "sockerr"}}

\* C16: a worker records the outcome of its port before it advances the
\* counter for it: the recorded open ports plus the completed unreachable
\* probes are at least the counter, and whenever the counter equals
\* total_ports every reachable port of the range is in open_ports.
C16_RecordedBeforeCounted ==
    /\ Len(open_ports) + Cardinality(UnreachableDone) >= progress_counter
    /\ \A w \in Workers :
        (wpc[w] \in {"lock_progress", "load", "progress"} /\ outcome[wport[w]] = "open")
            => wport[w] \in PortsOf(open_ports)
    /\ progress_counter = total_ports =>
        \A p \in RangePorts : outcome[p] = "open" => p \in PortsOf(open_ports)

\* C16 witness: the counter has reached total_ports in a scan by two workers
\* that found a reachable and an unreachable port.
C16_Witness ==
    /\ progress_counter = total_ports
    /\ Len(thread_list) >= 2
    /\ Len(open_ports) >= 1
    /\ Cardinality(UnreachableDone) >= 1

\* a scan of the single port start_port with at least one thread requested
SinglePort == start_port = end_port /\ num_threads >= 1

\* The scans of a single port (-s p -e p), without a user interrupt and under
\* the scheduling of FairSpec.
SinglePortInit == Init /\ start_port = end_port

SinglePortSpec ==
    /\ SinglePortInit
    /\ [][NextNoInterrupt]_vars
    /\ WF_vars(MainStep)
    /\ \A w \in Workers : WF_vars(WorkerStep(w))

\* C14: in a scan of a single port with a thread count of at least 1 exactly
\* one worker is started, only that port is withdrawn and probed and only
\* once, the worker's next withdrawal finds the queue empty and ends it, the
\* returned list holds at most that port, and (the port being one the socket
\* layer accepts) the scan runs to completion.
C14_SinglePort ==
    /\ [](SinglePort =>
          /\ Len(thread_list) <= 1
          /\ Spawned => Len(thread_list) = 1
          /\ \A w \in Workers : w # 1 => wpc[w] = "unstarted"
          /\ \A p \in Ports : p # start_port => withdrawn[p] = 0 /\ probed[p] = 0
          /\ withdrawn[start_port] <= 1 /\ probed[start_port] <= 1
          /\ withdrawn[start_port] = 1 => queue = <<>>
          /\ Drained => withdrawn[start_port] = 1 /\ probed[start_port] = 1
          /\ Returned =>
              /\ wpc[1] = "exited"
              /\ Len(result) <= 1
              /\ PortsOf(result) \subseteq {start_port})
    /\ (mainpc = "put" /\ SinglePort /\ outcome[start_port] # "fault")
         ~> (mainpc = "completed" /\ wpc[1] = "exited" /\ probed[start_port] = 1)

\* C14 witness: a single-port scan for which two threads were requested has
\* completed and returned its port.
C14_Witness ==
    /\ SinglePort
    /\ num_threads >= 2
    /\ mainpc = "completed"
    /\ Len(result) = 1
    /\ wpc[1] = "exited"

\* C15: for a non-empty range whose probes all return, and whatever the
\* thread count, scan_ports is never stuck before it has returned: as long as
\* main has not ended some thread can take a step, so that queue.join() does
\* not wait for tasks nobody will finish.
C15_NeverStuck ==
    (ValidRange /\ ProcessAlive /\ \A p \in RangePorts : outcome[p] # "fault")
        => ENABLED NextNoInterrupt

\* C13: a worker whose get_nowait finds the queue empty leaves its loop and
\* ends normally: its step from there takes it to the end of worker(), not
\* to an exception that escapes the thread, and it does not stay waiting.
C13_EmptyEndsWorker ==
    [][\A w \in Workers :
        (wpc[w] = "get" /\ queue = <<>> /\ wpc'[w] # wpc[w]) => wpc'[w] = "exited"]_vars

\* the number typed for the last delete names a contact of the list it started from
ChosenPosition ==
    IF AllDigits(last_op.typed) /\ DigitsValue(last_op.typed) >= 1
        /\ DigitsValue(last_op.typed) <= Len(last_op.before)
    THEN DigitsValue(last_op.typed) ELSE 0

====
